---- MODULE Spec2Model ----
(***************************************************************************)
(* dotenvy: the upward search for a configuration file (src/find.rs) and   *)
(* the error model it reports through (src/errors.rs).                     *)
(*                                                                         *)
(* A path is the sequence of its components, as std::path::Path yields     *)
(* them: an absolute path starts with the root component "/", the empty    *)
(* sequence is the empty path "".                                          *)
(***************************************************************************)
EXTENDS Naturals, Sequences, FiniteSets, TLC

\* ------------------------------------------------------------------ bounds

\* Depth of the deepest directory of the modelled tree, /a/b/... .
MaxDepth == 2
\* Number of paths of the filesystem that hold an entry.
MaxEntries == 2

\* ------------------------------------------------------------- Option, Result

None == [some |-> FALSE]
Some(v) == [some |-> TRUE, val |-> v]

Ok(v) == [ok |-> TRUE, val |-> v]
Err(e) == [ok |-> FALSE, err |-> e]

\* ------------------------------------------------------------------ paths

RootDir == "/"

\* Path::is_absolute, as PathBuf::push consults it inside Path::join.
is_absolute(p) == p # <<>> /\ p[1] = RootDir

\* Path::join: an absolute argument replaces the path, a relative one is
\* appended to it.
join(directory, filename) ==
    IF is_absolute(filename) THEN filename ELSE directory \o filename

\* Path::parent: the path without its last component; none for the root
\* and for the empty path.
parent(directory) ==
    IF directory = <<>> THEN None
    ELSE IF directory[Len(directory)] = RootDir THEN None
    ELSE Some(SubSeq(directory, 1, Len(directory) - 1))

\* Path::to_string_lossy: the components separated by "/".
RECURSIVE to_string_lossy(_)
to_string_lossy(p) ==
    IF p = <<>> THEN ""
    ELSE IF Len(p) = 1 THEN p[1]
    ELSE IF SubSeq(p, 1, Len(p) - 1) = <<RootDir>> THEN RootDir \o p[Len(p)]
    ELSE to_string_lossy(SubSeq(p, 1, Len(p) - 1)) \o "/" \o p[Len(p)]

\* ------------------------------------------------------------- OS errors

\* std::io::Error: its kind and the message its Display writes.
io_Error_new(kind, msg) == [kind |-> kind, msg |-> msg]

\* io::Error from a bare ErrorKind (ErrorKind::X.into()): Display writes the
\* kind's description.
io_Error_from_kind(kind) ==
    io_Error_new(kind,
        CASE kind = "NotFound" -> "entity not found"
          [] kind = "PermissionDenied" -> "permission denied"
          [] OTHER -> "other error")

\* io::Error the operating system reports (errno), as fs::metadata,
\* File::open and env::current_dir return it.
io_Error_os(kind) ==
    io_Error_new(kind,
        CASE kind = "NotFound" -> "No such file or directory (os error 2)"
          [] kind = "PermissionDenied" -> "Permission denied (os error 13)"
          [] OTHER -> "Input/output error (os error 5)")

\* Display of env::VarError.
VarError_fmt(v) ==
    IF v.tag = "NotPresent" THEN "environment variable not found"
    ELSE "environment variable was not valid unicode: " \o v.val

\* ------------------------------------------------------------ error model

ParseError_from_parts(path, line, col) ==
    [path |-> path, line |-> line, col |-> col]

IoError_without_path(source) == [path |-> None, source |-> source]

IoError_from_parts(path, source) == [path |-> path, source |-> source]

\* From<ParseError>, From<IoError>, From<env::VarError> for Error.
Error_from_ParseError(parse) == [variant |-> "Parse", parse |-> parse]
Error_from_IoError(io) == [variant |-> "Io", io |-> io]
Error_from_VarError(source) == [variant |-> "EnvVar", source |-> source]

ParseError_fmt(e) ==
    (IF e.path.some THEN to_string_lossy(e.path.val) \o ": " ELSE "")
        \o "'" \o e.line \o "', error at column " \o ToString(e.col)

\* Display of IoError without the path.
IoError_fmt_without_path(e) == e.source.msg

IoError_fmt(e) ==
    (IF e.path.some THEN to_string_lossy(e.path.val) \o ": " ELSE "")
        \o e.source.msg

Error_fmt(e) ==
    CASE e.variant = "Io" -> IoError_fmt(e.io)
      [] e.variant = "EnvVar" -> VarError_fmt(e.source)
      [] e.variant = "Parse" -> ParseError_fmt(e.parse)

Error_path(e) ==
    CASE e.variant = "Parse" -> e.parse.path
      [] e.variant = "Io" -> e.io.path
      [] e.variant = "EnvVar" -> None

\* not_found that is true of every Io error.
Error_not_found_any_io(e) == e.variant = "Io"

Error_not_found(e) ==
    IF e.variant = "Io" THEN e.io.source.kind = "NotFound" ELSE FALSE

\* source that hands out the IoError wrapper instead of the OS error in it.
Error_source_wrapper(e) ==
    CASE e.variant = "Io" -> Some([type |-> "IoError", value |-> e.io])
      [] e.variant = "EnvVar" -> Some([type |-> "VarError", value |-> e.source])
      [] OTHER -> None

\* The cause is a trait object: the value together with its dynamic type,
\* which is what downcast_ref tells apart.
Error_source(e) ==
    CASE e.variant = "Io" -> Some([type |-> "io::Error", value |-> e.io.source])
      [] e.variant = "EnvVar" -> Some([type |-> "VarError", value |-> e.source])
      [] OTHER -> None

\* ------------------------------------------------------------- filesystem

\* The directories of the modelled tree: the chain /, /a, /a/b, ... down to
\* depth MaxDepth, a sibling x of the deepest directory of the chain, and
\* the relative directories "a" and "".
DirNames == <<"a", "b", "c", "d", "e">>

ChainDir(k) == <<RootDir>> \o SubSeq(DirNames, 1, k)

AbsDirs ==
    {ChainDir(k) : k \in 0..MaxDepth} \cup {ChainDir(MaxDepth - 1) \o <<"x">>}

RelDirs == {<<>>, <<"a">>}

StartDirs == AbsDirs \cup RelDirs

\* Finder::new's filename.
DefaultFilename == <<".env">>

Filenames == {DefaultFilename, <<"conf", "app.env">>, <<RootDir, "etc", "env">>}

FsPaths == {join(d, f) : d \in StartDirs, f \in Filenames}

\* What the filesystem knows of a path: a regular file, a directory, a
\* regular file in a directory that may not be searched, or no entry in a
\* directory that may not be searched (the metadata query is denied in both).
FsEntries ==
    { [kind |-> "file", access |-> "ok"],
      [kind |-> "dir", access |-> "ok"],
      [kind |-> "file", access |-> "PermissionDenied"],
      [kind |-> "none", access |-> "PermissionDenied"] }

RECURSIVE SubsetsUpTo(_, _)
SubsetsUpTo(S, k) ==
    IF k = 0 THEN {{}}
    ELSE LET r == SubsetsUpTo(S, k - 1)
         IN  r \cup {t \cup {x} : t \in r, x \in S}

Filesystems == UNION {[S -> FsEntries] : S \in SubsetsUpTo(FsPaths, MaxEntries)}

\* ------------------------------------------------------------------ state

VARIABLES
    fs,        \* the filesystem: path -> entry; a path outside it does not exist
    pc,        \* where the caller is: "start", "built", "find", "open", "made", "seen", "done"
    caller,    \* who called find: "none", "direct" or "Finder"
    finder,    \* the Finder value, once built
    given,     \* the filename last passed to Finder::filename
    cwd,       \* what env::current_dir returned
    arg,       \* the start directory and filename the outermost find was called with
    stack,     \* the directory of every active call of find, outermost first
    ret,       \* the value the innermost finished call of find returned
    origin,    \* the value as first constructed, and the depth it was constructed at
    queries,   \* the paths fs::metadata was called on, in order
    opens,     \* the calls of File::open, in order: the path and the outcome
    result,    \* what the entry point returned to the caller
    subject,   \* the Error the caller holds
    report     \* what the caller read off that Error

vars == <<fs, pc, caller, finder, given, cwd, arg, stack, ret, origin,
          queries, opens, result, subject, report>>

\* fs::metadata
fs_metadata(p) ==
    IF p \notin DOMAIN fs THEN Err(io_Error_os("NotFound"))
    ELSE IF fs[p].access # "ok" THEN Err(io_Error_os(fs[p].access))
    ELSE Ok([is_file |-> fs[p].kind = "file"])

Init ==
    /\ fs \in Filesystems
    /\ pc = "start"
    /\ caller = "none"
    /\ finder = None
    /\ given = None
    /\ cwd = None
    /\ arg = None
    /\ stack = <<>>
    /\ ret = None
    /\ origin = None
    /\ queries = <<>>
    /\ opens = <<>>
    /\ result = None
    /\ subject = None
    /\ report = None

\* ------------------------------------------------------------------- find

\* What one call of find does: it returns a value, or it calls find on the
\* parent directory and returns what that call returns.
Return(value) == [tag |-> "return", value |-> value]
Recurse(directory) == [tag |-> "recurse", directory |-> directory]

\* find without the is_file test: any entry the metadata query succeeds on
\* is returned.
find_any_entry(directory, filename) ==
    LET candidate == join(directory, filename)
        metadata == fs_metadata(candidate)
    IN  IF metadata.ok
        THEN Return(Ok(candidate))
        ELSE IF ~metadata.ok /\ metadata.err.kind # "NotFound"
        THEN Return(Err(Error_from_IoError(
                 IoError_from_parts(Some(candidate), metadata.err))))
        ELSE IF parent(directory).some
        THEN Recurse(parent(directory).val)
        ELSE Return(Err(Error_from_IoError(
                 IoError_from_parts(Some(directory),
                                    io_Error_new("NotFound", "path not found")))))

\* find whose error at the root is of kind Other.
find_root_error_other(directory, filename) ==
    LET candidate == join(directory, filename)
        metadata == fs_metadata(candidate)
    IN  IF metadata.ok /\ metadata.val.is_file
        THEN Return(Ok(candidate))
        ELSE IF ~metadata.ok /\ metadata.err.kind # "NotFound"
        THEN Return(Err(Error_from_IoError(
                 IoError_from_parts(Some(candidate), metadata.err))))
        ELSE IF parent(directory).some
        THEN Recurse(parent(directory).val)
        ELSE Return(Err(Error_from_IoError(
                 IoError_from_parts(Some(directory),
                                    io_Error_new("Other", "path not found")))))

\* find that goes on to the parent after any failed metadata query.
find_ignores_errors(directory, filename) ==
    LET candidate == join(directory, filename)
        metadata == fs_metadata(candidate)
    IN  IF metadata.ok /\ metadata.val.is_file
        THEN Return(Ok(candidate))
        ELSE IF parent(directory).some
        THEN Recurse(parent(directory).val)
        ELSE Return(Err(Error_from_IoError(
                 IoError_from_parts(Some(directory),
                                    io_Error_new("NotFound", "path not found")))))

\* find that fails on an entry that is not a regular file.
find_rejects_other_entries(directory, filename) ==
    LET candidate == join(directory, filename)
        metadata == fs_metadata(candidate)
    IN  IF metadata.ok /\ metadata.val.is_file
        THEN Return(Ok(candidate))
        ELSE IF metadata.ok
        THEN Return(Err(Error_from_IoError(
                 IoError_from_parts(Some(candidate),
                                    io_Error_new("Other", "not a regular file")))))
        ELSE IF ~metadata.ok /\ metadata.err.kind # "NotFound"
        THEN Return(Err(Error_from_IoError(
                 IoError_from_parts(Some(candidate), metadata.err))))
        ELSE IF parent(directory).some
        THEN Recurse(parent(directory).val)
        ELSE Return(Err(Error_from_IoError(
                 IoError_from_parts(Some(directory),
                                    io_Error_new("NotFound", "path not found")))))

\* find that calls itself on the same directory instead of the parent.
find_same_directory(directory, filename) ==
    LET candidate == join(directory, filename)
        metadata == fs_metadata(candidate)
    IN  IF metadata.ok /\ metadata.val.is_file
        THEN Return(Ok(candidate))
        ELSE IF ~metadata.ok /\ metadata.err.kind # "NotFound"
        THEN Return(Err(Error_from_IoError(
                 IoError_from_parts(Some(candidate), metadata.err))))
        ELSE IF parent(directory).some
        THEN Recurse(directory)
        ELSE Return(Err(Error_from_IoError(
                 IoError_from_parts(Some(directory),
                                    io_Error_new("NotFound", "path not found")))))

\* find whose error at the root carries the candidate's path.
find_root_error_candidate(directory, filename) ==
    LET candidate == join(directory, filename)
        metadata == fs_metadata(candidate)
    IN  IF metadata.ok /\ metadata.val.is_file
        THEN Return(Ok(candidate))
        ELSE IF ~metadata.ok /\ metadata.err.kind # "NotFound"
        THEN Return(Err(Error_from_IoError(
                 IoError_from_parts(Some(candidate), metadata.err))))
        ELSE IF parent(directory).some
        THEN Recurse(parent(directory).val)
        ELSE Return(Err(Error_from_IoError(
                 IoError_from_parts(Some(candidate),
                                    io_Error_new("NotFound", "path not found")))))

find(directory, filename) ==
    LET candidate == join(directory, filename)
        metadata == fs_metadata(candidate)
    IN  IF metadata.ok /\ metadata.val.is_file
        THEN Return(Ok(candidate))
        ELSE IF ~metadata.ok /\ metadata.err.kind # "NotFound"
        THEN Return(Err(Error_from_IoError(
                 IoError_from_parts(Some(candidate), metadata.err))))
        ELSE IF parent(directory).some
        THEN Recurse(parent(directory).val)
        ELSE Return(Err(Error_from_IoError(
                 IoError_from_parts(Some(directory),
                                    io_Error_new("NotFound", "path not found")))))

\* A caller outside the Finder calls find(directory, filename).
find_call(directory, filename) ==
    /\ pc = "start"
    /\ pc' = "find"
    /\ caller' = "direct"
    /\ arg' = Some([directory |-> directory, filename |-> filename])
    /\ stack' = <<directory>>
    /\ UNCHANGED <<fs, finder, given, cwd, ret, origin, queries, opens,
                   result, subject, report>>

\* The innermost call of find runs: the metadata query on its candidate,
\* then a return or the call on the parent.
find_step ==
    /\ pc = "find"
    /\ stack # <<>>
    /\ ~ret.some
    /\ LET directory == stack[Len(stack)]
           step == find(directory, arg.val.filename)
       IN  /\ queries' = Append(queries, join(directory, arg.val.filename))
           /\ IF step.tag = "return"
              THEN /\ ret' = Some(step.value)
                   /\ origin' = Some([value |-> step.value, depth |-> Len(stack)])
                   /\ stack' = stack
              ELSE /\ stack' = Append(stack, step.directory)
                   /\ UNCHANGED <<ret, origin>>
    /\ UNCHANGED <<fs, pc, caller, finder, given, cwd, arg, opens, result,
                   subject, report>>

\* A call of find that called find on the parent returns that call's value.
find_return ==
    /\ pc = "find"
    /\ ret.some
    /\ Len(stack) > 1
    /\ stack' = SubSeq(stack, 1, Len(stack) - 1)
    /\ UNCHANGED <<fs, pc, caller, finder, given, cwd, arg, ret, origin,
                   queries, opens, result, subject, report>>

\* The outermost call returns to the caller outside the Finder.
find_done ==
    /\ pc = "find"
    /\ caller = "direct"
    /\ ret.some
    /\ Len(stack) = 1
    /\ stack' = <<>>
    /\ result' = Some(ret.val)
    /\ subject' = IF ret.val.ok THEN None ELSE Some(ret.val.err)
    /\ pc' = "done"
    /\ UNCHANGED <<fs, caller, finder, given, cwd, arg, ret, origin, queries,
                   opens, report>>

\* ----------------------------------------------------------------- Finder

Finder_new ==
    /\ pc = "start"
    /\ finder' = Some([filename |-> DefaultFilename])
    /\ pc' = "built"
    /\ UNCHANGED <<fs, caller, given, cwd, arg, stack, ret, origin, queries,
                   opens, result, subject, report>>

\* filename that returns the Finder as it was.
Finder_filename_ignored(filename) ==
    /\ pc = "built"
    /\ given' = Some(filename)
    /\ UNCHANGED <<fs, pc, caller, finder, cwd, arg, stack, ret, origin,
                   queries, opens, result, subject, report>>

Finder_filename(filename) ==
    /\ pc = "built"
    /\ finder' = Some([finder.val EXCEPT !.filename = filename])
    /\ given' = Some(filename)
    /\ UNCHANGED <<fs, pc, caller, cwd, arg, stack, ret, origin, queries,
                   opens, result, subject, report>>

\* env::current_dir: a directory, or the error of the operating system.
CurrentDirOutcomes ==
    {Ok(d) : d \in AbsDirs}
        \cup {Err(io_Error_os(k)) : k \in {"NotFound", "PermissionDenied"}}

\* File::open: a handle, or the error of the operating system.
OpenOutcomes ==
    {Ok("handle")}
        \cup {Err(io_Error_os(k)) : k \in {"NotFound", "PermissionDenied"}}

\* Iter::new
Iter_new(path, file) == [path |-> path, file |-> file]

\* Finder::find, first statement: the working directory, then the call of
\* find from it.
Finder_find_current_dir(outcome) ==
    /\ pc = "built"
    /\ cwd' = Some(outcome)
    /\ IF outcome.ok
       THEN /\ pc' = "find"
            /\ caller' = "Finder"
            /\ arg' = Some([directory |-> outcome.val,
                            filename |-> finder.val.filename])
            /\ stack' = <<outcome.val>>
            /\ UNCHANGED <<result, subject>>
       ELSE /\ pc' = "done"
            /\ result' = Some(Err(Error_from_IoError(
                              IoError_without_path(outcome.err))))
            /\ subject' = Some(Error_from_IoError(
                              IoError_without_path(outcome.err)))
            /\ UNCHANGED <<caller, arg, stack>>
    /\ UNCHANGED <<fs, finder, given, ret, origin, queries, opens, report>>

\* Finder::find, second statement: the value find returned, an error going
\* to the caller as it is.
Finder_find_path ==
    /\ pc = "find"
    /\ caller = "Finder"
    /\ ret.some
    /\ Len(stack) = 1
    /\ stack' = <<>>
    /\ IF ret.val.ok
       THEN /\ pc' = "open"
            /\ UNCHANGED <<result, subject>>
       ELSE /\ pc' = "done"
            /\ result' = Some(Err(ret.val.err))
            /\ subject' = Some(ret.val.err)
    /\ UNCHANGED <<fs, caller, finder, given, cwd, arg, ret, origin, queries,
                   opens, report>>

\* Finder::find, the rest: the file at the path is opened and wrapped.
Finder_find_open(outcome) ==
    /\ pc = "open"
    /\ LET path == ret.val.val
       IN  /\ opens' = Append(opens, [path |-> path, outcome |-> outcome])
           /\ IF outcome.ok
              THEN /\ result' = Some(Ok(Iter_new(path, [of |-> path])))
                   /\ subject' = subject
              ELSE /\ result' = Some(Err(Error_from_IoError(
                                     IoError_from_parts(Some(path), outcome.err))))
                   /\ subject' = Some(Error_from_IoError(
                                     IoError_from_parts(Some(path), outcome.err)))
    /\ pc' = "done"
    /\ UNCHANGED <<fs, caller, finder, given, cwd, arg, stack, ret, origin,
                   queries, report>>

\* ------------------------------------------------- the caller and its Error

\* The errors the rest of the crate builds: a malformed line, a failed
\* operation of the operating system, a variable that cannot be read.
ErrorPaths ==
    {None, Some(<<"path", "to", ".env">>), Some(<<RootDir, "a", ".env">>),
     Some(<<RootDir>>)}

ErrorValues ==
    {Error_from_ParseError(ParseError_from_parts(p, l, c)) :
        p \in ErrorPaths, l \in {"test line", "KEY", ""}, c \in {0, 2, 10}}
    \cup {Error_from_IoError(IoError_from_parts(p, s)) :
            p \in ErrorPaths,
            s \in {io_Error_from_kind("NotFound"),
                   io_Error_from_kind("PermissionDenied"),
                   io_Error_os("NotFound"),
                   io_Error_os("Other"),
                   io_Error_new("NotFound", "path not found")}}
    \cup {Error_from_VarError(v) :
            v \in {[tag |-> "NotPresent"],
                   [tag |-> "NotUnicode", val |-> "\"caf\\xE9\""]}}

\* Another part of the crate hands the caller an Error.
Construct(e) ==
    /\ pc = "start"
    /\ subject' = Some(e)
    /\ pc' = "done"
    /\ UNCHANGED <<fs, caller, finder, given, cwd, arg, stack, ret, origin,
                   queries, opens, result, report>>

\* The caller formats the Error it holds and reads its path, its cause and
\* whether it is "not found".
Inspect ==
    /\ pc = "done"
    /\ subject.some
    /\ ~report.some
    /\ report' = Some([fmt |-> Error_fmt(subject.val),
                       path |-> Error_path(subject.val),
                       source |-> Error_source(subject.val),
                       not_found |-> Error_not_found(subject.val)])
    /\ UNCHANGED <<fs, pc, caller, finder, given, cwd, arg, stack, ret,
                   origin, queries, opens, result, subject>>

\* --------------------------------------------------------- specifications

\* Everything the crate's callers can do.
Next ==
    \/ \E d \in StartDirs, f \in Filenames : find_call(d, f)
    \/ find_step
    \/ find_return
    \/ find_done
    \/ Finder_new
    \/ \E f \in Filenames : Finder_filename(f)
    \/ \E o \in CurrentDirOutcomes : Finder_find_current_dir(o)
    \/ Finder_find_path
    \/ \E o \in OpenOutcomes : Finder_find_open(o)
    \/ \E e \in ErrorValues : Construct(e)
    \/ Inspect

Spec == Init /\ [][Next]_vars

\* A caller of find(directory, filename).
NextFind ==
    \/ \E d \in StartDirs, f \in Filenames : find_call(d, f)
    \/ find_step
    \/ find_return
    \/ find_done
    \/ Inspect

SpecFind == Init /\ [][NextFind]_vars

\* A caller of Finder::new().filename(..).find().
NextFinder ==
    \/ Finder_new
    \/ \E f \in Filenames : Finder_filename(f)
    \/ \E o \in CurrentDirOutcomes : Finder_find_current_dir(o)
    \/ find_step
    \/ find_return
    \/ Finder_find_path
    \/ \E o \in OpenOutcomes : Finder_find_open(o)
    \/ Inspect

SpecFinder == Init /\ [][NextFinder]_vars

\* A caller handed an Error by any part of the crate; the filesystem plays
\* no part.
InitError == Init /\ DOMAIN fs = {}

NextError ==
    \/ \E e \in ErrorValues : Construct(e)
    \/ Inspect

SpecError == InitError /\ [][NextError]_vars

\* ---------------------------------------------------------------------
\* Properties of find(D, F), under SpecFind.
\* ---------------------------------------------------------------------

\* The directories of D's ancestor chain: D, its parent, ... up to the one
\* without a parent (the root "/", or the empty path for a relative D).
Ancestors(D) ==
    [i \in 1..(IF is_absolute(D) THEN Len(D) ELSE Len(D) + 1) |->
        SubSeq(D, 1, Len(D) - i + 1)]

Chain == Ancestors(arg.val.directory)

\* The candidate of the i-th directory of the chain.
Candidate(i) == join(Chain[i], arg.val.filename)

\* The call find(D, F) has returned to its caller.
Returned == pc = "done" /\ caller = "direct" /\ result.some

IsRegularFile(p) == p \in DOMAIN fs /\ fs[p].kind = "file"
IsDirectory(p) == p \in DOMAIN fs /\ fs[p].kind = "dir"
\* The metadata query on p fails with an error other than "not found".
QueryDenied(p) == p \in DOMAIN fs /\ fs[p].access # "ok"

HasRegularFile == \E i \in DOMAIN Chain : IsRegularFile(Candidate(i))

Nearest ==
    CHOOSE i \in DOMAIN Chain :
        /\ IsRegularFile(Candidate(i))
        /\ \A j \in 1..(i - 1) : ~IsRegularFile(Candidate(j))

\* C1, as stated: whenever F exists as a regular file in D or an ancestor
\* of D, find(D, F) returns Ok with the candidate of the nearest such
\* directory, never an error.
C1_Original ==
    (Returned /\ HasRegularFile) => result.val = Ok(Candidate(Nearest))

\* C1, amended: whenever F exists as a regular file in D or an ancestor of
\* D and no metadata query on the candidate of the nearest such directory or
\* of a directory nearer to D fails with an error other than "not found",
\* find(D, F) returns Ok with the candidate of that nearest directory.
C1_Nearest ==
    (/\ Returned
     /\ HasRegularFile
     /\ \A j \in 1..Nearest : ~QueryDenied(Candidate(j)))
        => result.val = Ok(Candidate(Nearest))

\* A call that returned the nearer of two regular files, found above the
\* start directory.
C1_Witness ==
    /\ Returned
     /\ HasRegularFile
     /\ Nearest >= 2
     /\ \E k \in DOMAIN Chain : k > Nearest /\ IsRegularFile(Candidate(k))
     /\ \A j \in 1..Nearest : ~QueryDenied(Candidate(j))
     /\ result.val.ok

\* C2, as stated: whenever no directory of D's chain holds a regular file
\* named F, find(D, F) fails and not_found() is true of the error.
C2_Original ==
    (Returned /\ ~HasRegularFile)
        => (~result.val.ok /\ Error_not_found(result.val.err))

\* C2, amended: whenever no directory of D's chain holds a regular file
\* named F and no metadata query on a candidate of the chain fails with an
\* error other than "not found", find(D, F) fails and not_found() is true
\* of the error.
C2_NotFound ==
    (/\ Returned
     /\ ~HasRegularFile
     /\ \A j \in DOMAIN Chain : ~QueryDenied(Candidate(j)))
        => (~result.val.ok /\ Error_not_found(result.val.err))

\* A call from below the root that failed with no regular file in the
\* chain, a directory named F being in it.
C2_Witness ==
    /\ Returned
    /\ ~HasRegularFile
    /\ \A j \in DOMAIN Chain : ~QueryDenied(Candidate(j))
    /\ \E j \in DOMAIN Chain : IsDirectory(Candidate(j))
    /\ Len(Chain) >= 2
    /\ ~result.val.ok

\* C3: a metadata query that fails with an error other than "not found" is
\* the last query of the call; the call returns the Io error with that
\* candidate's path and that error, and the value stays the same through
\* every return up to the caller.
C3_Abort ==
    \A i \in DOMAIN queries :
        LET metadata == fs_metadata(queries[i])
            failure == [variant |-> "Io",
                        io |-> [path |-> Some(queries[i]),
                                source |-> metadata.err]]
        IN  (~metadata.ok /\ metadata.err.kind # "NotFound")
                => /\ i = Len(queries)
                   /\ ret = Some(Err(failure))
                   /\ origin.val.value = Err(failure)
                   /\ result.some => result.val = Err(failure)

\* A call that returned, through two returns at least, the error of a
\* denied metadata query.
C3_Witness ==
    /\ Returned
    /\ Len(queries) >= 2
    /\ QueryDenied(queries[Len(queries)])
    /\ ~result.val.ok
    /\ Error_path(result.val.err) = Some(queries[Len(queries)])

\* C8: a path returned with Ok is the last one queried and the metadata
\* query reported it a regular file; and a search never ends on an entry
\* that is not a regular file except at the parentless directory, with the
\* error of an absent file.
C8_OnlyRegularFiles ==
    /\ (ret.some /\ ret.val.ok)
        => /\ queries # <<>>
           /\ ret.val.val = queries[Len(queries)]
           /\ fs_metadata(ret.val.val) = Ok([is_file |-> TRUE])
    /\ (ret.some /\ queries # <<>> /\ IsDirectory(queries[Len(queries)]))
        => /\ Len(queries) = Len(Chain)
           /\ ret.val = Err([variant |-> "Io",
                             io |-> [path |-> Some(Chain[Len(Chain)]),
                                     source |-> [kind |-> "NotFound",
                                                 msg |-> "path not found"]]])

\* A call that went past a directory named F and returned a regular file
\* found above it.
C8_Witness ==
    /\ Returned
    /\ result.val.ok
    /\ \E i \in 1..(Len(queries) - 1) : IsDirectory(queries[i])

\* What is left of a call of find: twice the directories not yet examined,
\* plus the calls not yet returned.
Rank ==
    IF pc # "find" THEN 0
    ELSE IF ret.some THEN Len(stack)
    ELSE 2 * Len(Ancestors(stack[Len(stack)])) + Len(stack)

\* C9: the metadata queries of find(D, F) are, in order, the candidates of
\* a prefix of D's ancestor chain, so at most as many as the chain has
\* directories; a running call can always take a step, and every step
\* brings it nearer to its return.
C9_Terminates ==
    /\ [](arg.some =>
            /\ Len(queries) <= Len(Chain)
            /\ \A i \in DOMAIN queries : queries[i] = Candidate(i)
            /\ pc = "find" => ENABLED (find_step \/ find_return \/ find_done))
    /\ [][pc = "find" => Rank' < Rank]_vars

\* A call from the deepest directory that examined the whole chain.
C9_Witness ==
    /\ Returned
    /\ Len(Chain) >= 3
    /\ Len(queries) = Len(Chain)

\* C10: when the candidate of the parentless directory has been queried and
\* is no match, find fails with an Io error whose path is that directory,
\* not its candidate, and whose cause is the "not found" error made up
\* for it.
C10_RootError ==
    (/\ Returned
     /\ Len(queries) = Len(Chain)
     /\ ~IsRegularFile(Candidate(Len(Chain)))
     /\ ~QueryDenied(Candidate(Len(Chain))))
        => /\ result.val = Err([variant |-> "Io",
                                io |-> [path |-> Some(Chain[Len(Chain)]),
                                        source |-> [kind |-> "NotFound",
                                                    msg |-> "path not found"]]])
           /\ Error_path(result.val.err) = Some(Chain[Len(Chain)])
           /\ Error_path(result.val.err) # Some(Candidate(Len(Chain)))
           /\ parent(Chain[Len(Chain)]) = None

\* A call that started below the root and failed at it, the root's
\* candidate being a directory.
C10_Witness ==
    /\ Returned
    /\ Len(Chain) >= 2
    /\ Len(queries) = Len(Chain)
    /\ IsDirectory(Candidate(Len(Chain)))
    /\ ~result.val.ok
    /\ Error_path(result.val.err) # Some(arg.val.directory)

\* ---------------------------------------------------------------------
\* Properties of Finder::find, under SpecFinder.
\* ---------------------------------------------------------------------

\* The filename the Finder was configured with: the one last given to
\* filename(), ".env" when none was.
ConfiguredFilename == IF given.some THEN given.val ELSE <<".env">>

\* C5: Finder::find first resolves the working directory and, when that
\* fails, returns an Io error without a path, having queried and opened
\* nothing; else it searches from the working directory for the configured
\* filename and returns the search's error as it is, having opened nothing;
\* else it opens the path the search returned, once, and returns an Io
\* error with that path when the open fails and a stream tagged with that
\* path when it succeeds.
C5_FinderSteps ==
    /\ ~cwd.some => (queries = <<>> /\ opens = <<>> /\ ~result.some)
    /\ (cwd.some /\ ~cwd.val.ok)
        => /\ result = Some(Err([variant |-> "Io",
                                 io |-> [path |-> None,
                                         source |-> cwd.val.err]]))
           /\ queries = <<>>
           /\ opens = <<>>
    /\ (cwd.some /\ cwd.val.ok)
        => /\ arg = Some([directory |-> cwd.val.val,
                          filename |-> ConfiguredFilename])
           /\ \A i \in DOMAIN queries :
                queries[i] = join(Ancestors(cwd.val.val)[i], ConfiguredFilename)
           /\ opens # <<>>
                => /\ ret.some /\ ret.val.ok
                   /\ opens[1].path = ret.val.val
                   /\ Len(opens) = 1
                   /\ result.some
           /\ result.some
                => IF ~ret.val.ok
                   THEN /\ result.val = origin.val.value
                        /\ opens = <<>>
                   ELSE /\ Len(opens) = 1
                        /\ IF opens[1].outcome.ok
                           THEN result.val =
                                    Ok([path |-> ret.val.val,
                                        file |-> [of |-> ret.val.val]])
                           ELSE result.val =
                                    Err([variant |-> "Io",
                                         io |-> [path |-> Some(ret.val.val),
                                                 source |-> opens[1].outcome.err]])

\* A Finder given a filename other than ".env" that found it above the
\* working directory and opened it.
C5_Witness ==
    /\ caller = "Finder"
    /\ given.some
    /\ given.val # <<".env">>
    /\ Len(queries) >= 2
    /\ result.some
    /\ result.val.ok
    /\ result.val.val.path = queries[Len(queries)]

\* ---------------------------------------------------------------------
\* Properties of the error model, under SpecError.
\* ---------------------------------------------------------------------

\* C4: not_found() is true exactly of an Io error whose OS error is of kind
\* NotFound, with or without a path; false of every Parse error, every
\* EnvVar error and every other Io error.
C4_NotFoundIff ==
    report.some =>
        LET e == subject.val
        IN  /\ e.variant = "Parse" => report.val.not_found = FALSE
            /\ e.variant = "EnvVar" => report.val.not_found = FALSE
            /\ e.variant = "Io"
                => report.val.not_found = (e.io.source.kind = "NotFound")

\* The caller read not_found() off an Io error of kind PermissionDenied
\* that carries a path.
C4_Witness ==
    /\ report.some
    /\ subject.val.variant = "Io"
    /\ subject.val.io.path.some
    /\ subject.val.io.source.kind = "PermissionDenied"
    /\ ~report.val.not_found

\* The detail of an Error: the line and column of a Parse error, the
\* message of the OS error of an Io error, the message of the variable
\* error of an EnvVar error.
Detail(e) ==
    CASE e.variant = "Parse" ->
            "'" \o e.parse.line \o "', error at column " \o ToString(e.parse.col)
      [] e.variant = "Io" -> e.io.source.msg
      [] e.variant = "EnvVar" -> VarError_fmt(e.source)

\* The path an Error was built with, if any.
BuiltPath(e) ==
    CASE e.variant = "Parse" -> e.parse.path
      [] e.variant = "Io" -> e.io.path
      [] e.variant = "EnvVar" -> None

\* C6: an Error formats as "<path>: <detail>" when it carries a path and as
\* "<detail>" when it does not, an EnvVar error never having one; the
\* errors of the crate's tests format as the tests say.
C6_Display ==
    report.some =>
        LET e == subject.val
        IN  /\ report.val.fmt =
                    IF BuiltPath(e).some
                    THEN to_string_lossy(BuiltPath(e).val) \o ": " \o Detail(e)
                    ELSE Detail(e)
            /\ e = [variant |-> "Parse",
                    parse |-> [path |-> Some(<<"path", "to", ".env">>),
                               line |-> "test line", col |-> 2]]
                => report.val.fmt = "path/to/.env: 'test line', error at column 2"
            /\ e = [variant |-> "Io",
                    io |-> [path |-> Some(<<"path", "to", ".env">>),
                            source |-> [kind |-> "PermissionDenied",
                                        msg |-> "permission denied"]]]
                => report.val.fmt = "path/to/.env: permission denied"
            /\ e = [variant |-> "EnvVar", source |-> [tag |-> "NotPresent"]]
                => report.val.fmt = "environment variable not found"

\* The caller formatted the Io error of the crate's test.
C6_Witness ==
    /\ report.some
    /\ subject.val.variant = "Io"
    /\ subject.val.io.path = Some(<<"path", "to", ".env">>)
    /\ report.val.fmt = "path/to/.env: permission denied"

\* C7: source() is the OS error of an Io error (an io::Error, of the kind
\* the error was built with), the variable error of an EnvVar error, and
\* none for a Parse error, with or without a path.
C7_Source ==
    report.some =>
        LET e == subject.val
        IN  /\ e.variant = "Io"
                => /\ report.val.source.some
                   /\ report.val.source.val.type = "io::Error"
                   /\ report.val.source.val.value = e.io.source
            /\ e.variant = "EnvVar"
                => report.val.source =
                        Some([type |-> "VarError", value |-> e.source])
            /\ e.variant = "Parse" => report.val.source = None

\* The caller read source() off an Io error of kind PermissionDenied that
\* carries a path.
C7_Witness ==
    /\ report.some
    /\ subject.val.variant = "Io"
    /\ subject.val.io.path.some
    /\ report.val.source.some
    /\ report.val.source.val.value.kind = "PermissionDenied"

====
